---- MODULE Spec2Model ----
(***************************************************************************)
(* Model of src/disk_util.hpp: class DirectoryLock (an flock(2) guard     *)
(* over a directory) and namespace DiskUtil (ShouldLock and its helpers).  *)
(*                                                                         *)
(* DirectoryLock part.  Every instance is driven by one single-threaded    *)
(* caller; callers of different instances interleave at system-call        *)
(* granularity.  The kernel side is modelled as far as the code observes   *)
(* it: a descriptor table per process (open(2) returns the lowest free     *)
(* number, close(2) frees it) and one flock(2) lock per directory, owned   *)
(* by an open file description.  Every open(2) creates its own open file   *)
(* description and the code never dup()s or fork()s, so a description is   *)
(* identified by <<process, descriptor number>>.                           *)
(***************************************************************************)
EXTENDS Integers, Sequences, FiniteSets, TLC

\* ------------------------------------------------------------------ bounds
NInst == 2      \* DirectoryLock instances that may ever be constructed

Inst   == 1..NInst
\* the directory the instances are created for; flock(2) locks of different
\* directories do not interact
Dirs   == {"tmp_dir"}
\* processes: instance i lives in process proc[i] <= i (instances may share)
Procs  == 1..NInst
\* every instance owns at most one open descriptor, so NInst numbers suffice
FdNums == 1..NInst

\* ------------------------------------------------------------------- state
VARIABLES
    proc,       \* proc[i]: the process instance i lives in
    pc,         \* pc[i]: where instance i's caller is
    op,         \* op[i]: the member function running (of watch: or run last)
    dirname_,   \* DirectoryLock::dirname_ ("" before construction)
    fd_,        \* DirectoryLock::fd_
    dir_fd,     \* the local dir_fd of LockDirectory / UnlockDirectory
    fdtab,      \* kernel: fdtab[p][n] the open file behind descriptor n of p
    holder,     \* kernel: holder[d] the description holding d's flock
    watch,      \* history: the instance whose calls are recorded
    ret,        \* history: what its last Lock()/Unlock() returned
    ev,         \* history: what its running/last call met and did
    plat,       \* DiskUtil: the platform the code was compiled for
    st_dev,     \* DiskUtil: st_dev that stat(dir) yields (<<-1,-1>>: it fails)
    sysfs,      \* DiskUtil: the host's /sys
    phase,      \* DiskUtil: "off", "ready" (before the call) or "done"
    fn,         \* DiskUtil: the function that was called
    arg,        \* DiskUtil: the dev argument of a direct classifier call
    result      \* DiskUtil: what the call gave back

lockvars   == <<proc, pc, op, dirname_, fd_, dir_fd, fdtab, holder,
                watch, ret, ev>>
policyvars == <<plat, st_dev, sysfs, phase, fn, arg, result>>
vars       == <<lockvars, policyvars>>

Closed   == [dir |-> "", owner |-> 0]
NoHolder == <<0, 0>>

\* ---------------------------------------------------- kernel: descriptors
IsOpen(p, n) == n \in FdNums /\ fdtab[p][n] # Closed

\* open(2) returns the lowest-numbered descriptor not open in the process
LowestFree(p) ==
    CHOOSE n \in FdNums : ~IsOpen(p, n) /\ \A m \in FdNums : m < n => IsOpen(p, m)

\* open(dirname, O_RDONLY | O_NOCTTY): a new descriptor, or -1 (ENOENT,
\* EACCES, EMFILE, ...), whichever the kernel decides
OpenResults(p) == {LowestFree(p), -1}

OpenTable(i, n) ==
    IF n = -1 THEN fdtab
    ELSE [fdtab EXCEPT ![proc[i]][n] = [dir |-> dirname_[i], owner |-> i]]

\* flock(n, LOCK_EX | LOCK_NB) in process p
FlockExResults(p, n) ==
    IF ~IsOpen(p, n) THEN {"EBADF"}
    ELSE IF holder[fdtab[p][n].dir] \in {NoHolder, <<p, n>>}
         THEN {"ok", "ENOLCK"}
         ELSE {"EWOULDBLOCK", "ENOLCK"}

FlockExHolder(p, n, rc) ==
    IF rc = "ok" THEN [holder EXCEPT ![fdtab[p][n].dir] = <<p, n>>] ELSE holder

\* flock(n, LOCK_UN) in process p
FlockUnResults(p, n) == IF ~IsOpen(p, n) THEN {"EBADF"} ELSE {"ok", "ENOLCK"}

Release(p, n) ==
    [d \in Dirs |-> IF holder[d] = <<p, n>> THEN NoHolder ELSE holder[d]]

FlockUnHolder(p, n, rc) == IF rc = "ok" THEN Release(p, n) ELSE holder

\* close(n) in process p.  A failing close of an open descriptor leaves the
\* descriptor in an unspecified state (POSIX): Linux has freed it when close
\* returns EINTR/EIO ("EIO_freed"), other systems keep it ("EINTR_kept").
CloseResults(p, n) ==
    IF ~IsOpen(p, n) THEN {"EBADF"} ELSE {"ok", "EIO_freed", "EINTR_kept"}

CloseFrees(rc) == rc \in {"ok", "EIO_freed"}

CloseTable(p, n, rc) ==
    IF CloseFrees(rc) THEN [fdtab EXCEPT ![p][n] = Closed] ELSE fdtab

\* closing the last descriptor of a description drops its flock
CloseHolder(p, n, rc) == IF CloseFrees(rc) THEN Release(p, n) ELSE holder


\* ------------------------------------------- DirectoryLock: code decisions
B(b) == IF b THEN "true" ELSE "false"

LockNeedsAcquire_Always(fd) == TRUE

\* Lock(): "if (fd_ == -1)"
LockNeedsAcquire(fd) == fd = -1

LockResult_Inverted(fd) == fd = -1

\* Lock(): "return fd_ != -1;"
LockResult(fd) == fd # -1

\* Unlock(): "if (fd_ == -1) return false;"
UnlockIsNoop(fd) == fd = -1

FdAfterUnlock_Kept(fd) == fd

\* Unlock(): "fd_ = -1;" once UnlockDirectory returned true
FdAfterUnlock(fd) == -1

OpenFailed_Never(n) == FALSE

\* LockDirectory(): "if (dir_fd == -1) { ...; return -1; }"
OpenFailed(n) == n = -1

FlockRetry_OnlyWouldBlock(rc) == rc = "EWOULDBLOCK"

\* LockDirectory(): "while (0 != flock(dir_fd, LOCK_EX | LOCK_NB))"
FlockRetry(rc) == rc # "ok"

\* UnlockDirectory(): "if (-1 == flock(dir_fd, LOCK_UN)) return false;"
UnlockFailed(rc) == rc # "ok"

CloseFailed_Ignored(rc) == FALSE

\* UnlockDirectory(): "if (-1 == close(dir_fd)) return false;"
CloseFailed(rc) == rc # "ok"

\* DirectoryLock(dirname, lock): "if (lock) { Lock(); }"
CtorLocks(lock) == lock

\* the caller gets control back; a destroyed instance takes no further calls
\* and its members are gone (fd_ reads -1 from then on)
PcAfter(i)  == IF op[i] = "dtor" THEN "done" ELSE "idle"
Gone(i, fd) == IF op[i] = "dtor" THEN -1 ELSE fd

\* --------------------------------------------------------------- history
\* The calls of one instance, watch, are recorded: ret is what its caller
\* got back (the constructor and the destructor drop the bool), ev what the
\* call met and did.
Returned(i, r) ==
    IF i # watch THEN ret ELSE IF op[i] \in {"ctor", "dtor"} THEN "none" ELSE r

Noted(i, e) == IF i = watch THEN ev \cup e ELSE ev

\* op[i] once the call `who` of instance i has returned
Ran(i, who) == [op EXCEPT ![i] = IF i = watch THEN who ELSE "none"]

\* what a call finds when it is entered ("was_locked": fd_ != -1; "held":
\* fd_ is a descriptor the instance opened and the directory's flock is held
\* through it; "after_unlock": the call before it on this instance was an
\* Unlock() that returned true)
AtEntry(i) ==
    (IF fd_[i] # -1 THEN {"was_locked"} ELSE {}) \cup
    (IF /\ IsOpen(proc[i], fd_[i])
        /\ fdtab[proc[i]][fd_[i]].owner = i
        /\ holder[dirname_[i]] = <<proc[i], fd_[i]>>
     THEN {"held"} ELSE {}) \cup
    (IF op[i] = "Unlock" /\ ret = "true" THEN {"after_unlock"} ELSE {})

Entered(i, e) == IF i = watch THEN e ELSE ev

\* what the kernel answered
OpenEv(n)    == IF n = -1 THEN {"open_fail"} ELSE {"open"}
FlockUnEv(rc) == IF rc = "ok" THEN {"flock_un"} ELSE {"flock_un_fail"}
CloseEv(rc)  == IF rc = "ok" THEN {"close"} ELSE {"close_fail"}
FlockEv(rc) ==
    {"flock"} \cup (IF rc = "ok" THEN {}
                    ELSE IF rc = "EWOULDBLOCK" THEN {"EWOULDBLOCK"}
                    ELSE {"flock_err"})

\* ------------------------------------------------- DirectoryLock: actions
\* DirectoryLock(dirname, lock): stores dirname; fd_ starts at -1; Lock() is
\* entered with fd_ == -1, i.e. it goes on to LockDirectory
Constructor(i, d, lock) ==
    /\ pc[i] = "none"
    /\ dirname_' = [dirname_ EXCEPT ![i] = d]
    /\ fd_' = [fd_ EXCEPT ![i] = -1]
    /\ ev' = Entered(i, IF lock THEN {"autolock"} ELSE {})
    /\ IF CtorLocks(lock) /\ LockNeedsAcquire(-1)
          THEN /\ pc' = [pc EXCEPT ![i] = "lk_open"]
               /\ op' = [op EXCEPT ![i] = "ctor"]
          ELSE /\ pc' = [pc EXCEPT ![i] = "idle"]
               /\ op' = Ran(i, "ctor")
    /\ UNCHANGED <<proc, dir_fd, fdtab, holder, watch, ret, policyvars>>

\* bool Lock(): the call and, when fd_ != -1, its immediate return
Lock(i) ==
    /\ pc[i] = "idle"
    /\ ev' = Entered(i, AtEntry(i))
    /\ IF LockNeedsAcquire(fd_[i])
          THEN /\ pc' = [pc EXCEPT ![i] = "lk_open"]
               /\ op' = [op EXCEPT ![i] = "Lock"]
               /\ ret' = IF i = watch THEN "none" ELSE ret
          ELSE /\ pc' = pc
               /\ op' = Ran(i, "Lock")
               /\ ret' = IF i = watch THEN B(LockResult(fd_[i])) ELSE ret
    /\ UNCHANGED <<proc, dirname_, fd_, dir_fd, fdtab, holder, watch,
                   policyvars>>

\* LockDirectory(): open(); on failure log and return -1, which Lock() stores
\* in fd_ and reports as false
LockDirectory_open(i, n) ==
    /\ pc[i] = "lk_open"
    /\ n \in OpenResults(proc[i])
    /\ fdtab' = OpenTable(i, n)
    /\ ev' = Noted(i, OpenEv(n))
    /\ IF OpenFailed(n)
          THEN /\ fd_' = [fd_ EXCEPT ![i] = -1]
               /\ pc' = [pc EXCEPT ![i] = PcAfter(i)]
               /\ ret' = Returned(i, B(LockResult(-1)))
               /\ op' = Ran(i, op[i])
               /\ UNCHANGED dir_fd
          ELSE /\ dir_fd' = [dir_fd EXCEPT ![i] = n]
               /\ pc' = [pc EXCEPT ![i] = "lk_flock"]
               /\ UNCHANGED <<fd_, ret, op>>
    /\ UNCHANGED <<proc, dirname_, holder, watch, policyvars>>

\* LockDirectory(): one evaluation of the loop condition flock(LOCK_EX|LOCK_NB)
\* and, when it fails, the loop body: the log line and the one-minute sleep,
\* after which the caller is about to call flock again
LockDirectory_flock(i, rc) ==
    /\ pc[i] = "lk_flock"
    /\ rc \in FlockExResults(proc[i], dir_fd[i])
    /\ holder' = FlockExHolder(proc[i], dir_fd[i], rc)
    /\ IF FlockRetry(rc)
          THEN /\ ev' = Noted(i, FlockEv(rc) \cup {"sleep"})
               /\ UNCHANGED <<pc, fd_, ret, dir_fd, op>>
          ELSE /\ ev' = Noted(i, FlockEv(rc))
               /\ op' = Ran(i, op[i])
               /\ fd_' = [fd_ EXCEPT ![i] = dir_fd[i]]
               /\ pc' = [pc EXCEPT ![i] = PcAfter(i)]
               /\ ret' = Returned(i, B(LockResult(dir_fd[i])))
               /\ dir_fd' = [dir_fd EXCEPT ![i] = -1]
    /\ UNCHANGED <<proc, dirname_, fdtab, watch, policyvars>>

\* bool Unlock(), called by the user (who = "Unlock") or by ~DirectoryLock()
UnlockEnter(i, who) ==
    /\ pc[i] = "idle"
    /\ ev' = Entered(i, AtEntry(i))
    /\ IF UnlockIsNoop(fd_[i])
          THEN /\ op' = Ran(i, who)
               /\ pc' = [pc EXCEPT ![i] = IF who = "dtor" THEN "done" ELSE "idle"]
               /\ ret' = IF i # watch THEN ret
                         ELSE IF who = "dtor" THEN "none" ELSE "false"
               /\ UNCHANGED dir_fd
          ELSE /\ op' = [op EXCEPT ![i] = who]
               /\ pc' = [pc EXCEPT ![i] = "ul_flock"]
               /\ ret' = IF i = watch THEN "none" ELSE ret
               /\ dir_fd' = [dir_fd EXCEPT ![i] = fd_[i]]
    /\ UNCHANGED <<proc, dirname_, fd_, fdtab, holder, watch, policyvars>>

Unlock(i) == UnlockEnter(i, "Unlock")

\* virtual ~DirectoryLock() { Unlock(); }
Destructor(i) == UnlockEnter(i, "dtor")

\* UnlockDirectory(): flock(dir_fd, LOCK_UN)
UnlockDirectory_flock(i, rc) ==
    /\ pc[i] = "ul_flock"
    /\ rc \in FlockUnResults(proc[i], dir_fd[i])
    /\ holder' = FlockUnHolder(proc[i], dir_fd[i], rc)
    /\ ev' = Noted(i, FlockUnEv(rc))
    /\ IF UnlockFailed(rc)
          THEN /\ pc' = [pc EXCEPT ![i] = PcAfter(i)]
               /\ ret' = Returned(i, "false")
               /\ dir_fd' = [dir_fd EXCEPT ![i] = -1]
               /\ fd_' = [fd_ EXCEPT ![i] = Gone(i, fd_[i])]
               /\ op' = Ran(i, op[i])
          ELSE /\ pc' = [pc EXCEPT ![i] = "ul_close"]
               /\ UNCHANGED <<ret, dir_fd, fd_, op>>
    /\ UNCHANGED <<proc, dirname_, fdtab, watch, policyvars>>

\* UnlockDirectory(): close(dir_fd); Unlock() resets fd_ only on success
UnlockDirectory_close(i, rc) ==
    /\ pc[i] = "ul_close"
    /\ rc \in CloseResults(proc[i], dir_fd[i])
    /\ fdtab' = CloseTable(proc[i], dir_fd[i], rc)
    /\ holder' = CloseHolder(proc[i], dir_fd[i], rc)
    /\ pc' = [pc EXCEPT ![i] = PcAfter(i)]
    /\ op' = Ran(i, op[i])
    /\ dir_fd' = [dir_fd EXCEPT ![i] = -1]
    /\ ev' = Noted(i, CloseEv(rc))
    /\ IF CloseFailed(rc)
          THEN /\ ret' = Returned(i, "false")
               /\ fd_' = [fd_ EXCEPT ![i] = Gone(i, fd_[i])]
          ELSE /\ ret' = Returned(i, "true")
               /\ fd_' = [fd_ EXCEPT ![i] = FdAfterUnlock(fd_[i])]
    /\ UNCHANGED <<proc, dirname_, watch, policyvars>>

\* ------------------------------------------------ DirectoryLock: the spec
\* instances are placed in processes; the numbering of processes is free, so
\* instance i starts a new process or joins the process of an earlier one
Placements ==
    {f \in [Inst -> Procs] :
        \A i \in Inst : f[i] = 1 \/ \E j \in 1..(i - 1) : f[i] <= f[j] + 1}

NoResult == [kind |-> "none", b |-> FALSE, path |-> <<>>]

PolicyIdle ==
    /\ plat = "linux" /\ st_dev = <<-1, -1>> /\ phase = "off"
    /\ sysfs = [mounted |-> FALSE, rot |-> <<>>]
    /\ fn = "none" /\ arg = <<>> /\ result = NoResult

Init ==
    /\ proc \in Placements
    /\ pc = [i \in Inst |-> "none"]
    /\ op = [i \in Inst |-> "none"]
    /\ dirname_ = [i \in Inst |-> ""]
    /\ fd_ = [i \in Inst |-> -1]
    /\ dir_fd = [i \in Inst |-> -1]
    /\ fdtab = [p \in Procs |-> [n \in FdNums |-> Closed]]
    /\ holder = [d \in Dirs |-> NoHolder]
    /\ watch \in Inst
    /\ ret = "none"
    /\ ev = {}
    /\ PolicyIdle

Next ==
    \E i \in Inst :
        \/ \E d \in Dirs, lock \in BOOLEAN : Constructor(i, d, lock)
        \/ Lock(i)
        \/ \E n \in FdNums \cup {-1} : LockDirectory_open(i, n)
        \/ \E rc \in {"ok", "EWOULDBLOCK", "ENOLCK", "EBADF"} :
              LockDirectory_flock(i, rc)
        \/ Unlock(i)
        \/ Destructor(i)
        \/ \E rc \in {"ok", "ENOLCK", "EBADF"} : UnlockDirectory_flock(i, rc)
        \/ \E rc \in {"ok", "EIO_freed", "EINTR_kept", "EBADF"} :
              UnlockDirectory_close(i, rc)

Spec == Init /\ [][Next]_vars

\* the retry loop of a pending Lock() keeps running, and a flock attempt that
\* can be granted infinitely often is granted at some point (the kernel does
\* not fail a grantable request with ENOLCK for ever); the system calls of a
\* running Unlock() return
Fairness ==
    \A i \in Inst :
        /\ WF_vars(\E n \in FdNums \cup {-1} : LockDirectory_open(i, n))
        /\ WF_vars(\E rc \in {"ok", "EWOULDBLOCK", "ENOLCK", "EBADF"} :
                      LockDirectory_flock(i, rc))
        /\ SF_vars(LockDirectory_flock(i, "ok"))
        /\ WF_vars(\E rc \in {"ok", "ENOLCK", "EBADF"} :
                      UnlockDirectory_flock(i, rc))
        /\ WF_vars(\E rc \in {"ok", "EIO_freed", "EINTR_kept", "EBADF"} :
                      UnlockDirectory_close(i, rc))

LiveSpec == Spec /\ Fairness

\* =================================================== namespace DiskUtil
\* A path is the sequence of its names: "/sys/block/sda" is
\* <<"sys", "block", "sda">>.  Writing paths and names to one stream, as the
\* code does with "<<", concatenates the sequences (a repeated "/" names
\* nothing).
MaxLine == 2    \* characters in the first line of the rotational file

Chars == {"0", "1", "x"}
Lines == UNION {[1..k -> Chars] : k \in 0..MaxLine}

\* "linux"; "apple" and "win32" (the #if of ShouldLock); "other": any other
\* POSIX platform the header builds on.  Only Linux has /sys.
Plats == {"linux", "apple", "win32", "other"}

\* The host's block devices as Linux's /sys shows them: one disk, sda (8:0),
\* with one partition, sda1 (8:1).  /sys/dev/block/8:0 and /sys/block/sda are
\* symbolic links to the disk's directory under /sys/devices, which holds
\* queue/rotational; a partition is a subdirectory of its disk.  A directory
\* on tmpfs, NFS, ... has an st_dev (0:42) with no entry in /sys/dev/block.
DiskDir == <<"sys", "devices", "pci0000:00", "ata1", "host0", "block", "sda">>
PartDir == DiskDir \o <<"sda1">>
StDevs  == {<<-1, -1>>, <<8, 0>>, <<8, 1>>, <<0, 42>>}

Error      == [kind |-> "error", b |-> FALSE, path |-> <<>>]
Bool(b)    == [kind |-> "bool", b |-> b, path |-> <<>>]
PathOf(p)  == [kind |-> "path", b |-> FALSE, path |-> p]

\* os << "/sys/dev/block/" << major(s.st_dev) << ":" << minor(s.st_dev)
BlockPath(dev) ==
    <<"sys", "dev", "block", ToString(dev[1]) \o ":" \o ToString(dev[2])>>

\* a realpath that hands back the path it was given when nothing resolves
Realpath_Unresolved(p) ==
    IF sysfs.mounted /\ p = BlockPath(<<8, 0>>) THEN PathOf(DiskDir)
    ELSE IF sysfs.mounted /\ p = BlockPath(<<8, 1>>) THEN PathOf(PartDir)
    ELSE PathOf(p)

\* realpath(3) of a /sys/dev/block link: the absolute path of its target
Realpath(p) ==
    IF sysfs.mounted /\ p = BlockPath(<<8, 0>>) THEN PathOf(DiskDir)
    ELSE IF sysfs.mounted /\ p = BlockPath(<<8, 1>>) THEN PathOf(PartDir)
    ELSE Error

\* path lookup follows the link /sys/block/sda
Canonical(p) ==
    IF Len(p) >= 3 /\ SubSeq(p, 1, 3) = <<"sys", "block", "sda">>
    THEN DiskDir \o SubSeq(p, 4, Len(p))
    ELSE p

\* std::ifstream::open and getline: the first line of the file, if it opens
FirstLine(p) ==
    IF sysfs.mounted /\ Canonical(p) = DiskDir \o <<"queue", "rotational">>
    THEN [ok |-> TRUE, line |-> sysfs.rot]
    ELSE [ok |-> FALSE, line |-> <<>>]

\* os << "/sys/block/" << dev << "/queue/rotational"
RotationalFile(dev) == <<"sys", "block">> \o dev \o <<"queue", "rotational">>

\* "if (!line.empty() && line.front() == '0') is_rotational = 0;"
IsRotational(line) == ~(line # <<>> /\ Head(line) = "0")

\* std::string DeviceNameOfDirectory(dir): stat, then realpath of the
\* /sys/dev/block path; both failures throw
DeviceNameOfDirectory ==
    IF st_dev = <<-1, -1>> THEN Error ELSE Realpath(BlockPath(st_dev))

\* bool IsParallelWritingPreferredForDevice(dev): throws when the file does
\* not open, else "return !is_rotational;"
IsParallelWritingPreferredForDevice(dev) ==
    LET file == FirstLine(RotationalFile(dev))
    IN  IF ~file.ok THEN Error ELSE Bool(~IsRotational(file.line))

\* what ShouldLock would be if it caught the throws and answered "no lock"
ShouldLock_Defaulting ==
    IF plat \in {"apple", "win32"} THEN Bool(FALSE)
    ELSE LET device_name == DeviceNameOfDirectory
         IN  IF device_name.kind = "error" THEN Bool(FALSE)
             ELSE LET is_parallel ==
                        IsParallelWritingPreferredForDevice(device_name.path)
                  IN  IF is_parallel.kind = "error" THEN Bool(FALSE)
                      ELSE Bool(~is_parallel.b)

\* bool ShouldLock(dir): nothing is caught, so a throw of either call leaves
\* ShouldLock as a throw
ShouldLock ==
    IF plat \in {"apple", "win32"} THEN Bool(FALSE)
    ELSE LET device_name == DeviceNameOfDirectory
         IN  IF device_name.kind = "error" THEN Error
             ELSE LET is_parallel ==
                        IsParallelWritingPreferredForDevice(device_name.path)
                  IN  IF is_parallel.kind = "error" THEN Error
                      ELSE Bool(~is_parallel.b)

\* the dev arguments a caller may pass to the classifier directly
DevArgs == {<<"sda">>, <<"sda1">>, <<"sdb">>, DiskDir}

Call(f, a, r) ==
    /\ phase = "ready"
    /\ phase' = "done" /\ fn' = f /\ arg' = a /\ result' = r
    /\ UNCHANGED <<plat, st_dev, sysfs, lockvars>>

Call_ShouldLock == Call("ShouldLock", <<>>, ShouldLock)

Call_DeviceNameOfDirectory ==
    plat # "win32" /\ Call("DeviceNameOfDirectory", <<>>, DeviceNameOfDirectory)

Call_IsParallelWritingPreferredForDevice(dev) ==
    /\ plat # "win32"
    /\ Call("IsParallelWritingPreferredForDevice", dev,
            IsParallelWritingPreferredForDevice(dev))

PolicyInit ==
    /\ plat \in Plats
    /\ st_dev \in StDevs
    /\ sysfs \in [mounted : BOOLEAN, rot : Lines]
    /\ plat # "linux" => ~sysfs.mounted
    /\ ~sysfs.mounted => sysfs.rot = <<>>
    /\ phase = "ready" /\ fn = "none" /\ arg = <<>> /\ result = NoResult
    /\ proc = [i \in Inst |-> 1]
    /\ pc = [i \in Inst |-> "none"]
    /\ op = [i \in Inst |-> "none"]
    /\ dirname_ = [i \in Inst |-> ""]
    /\ fd_ = [i \in Inst |-> -1]
    /\ dir_fd = [i \in Inst |-> -1]
    /\ fdtab = [p \in Procs |-> [n \in FdNums |-> Closed]]
    /\ holder = [d \in Dirs |-> NoHolder]
    /\ watch = 1 /\ ret = "none" /\ ev = {}

PolicyNext ==
    \/ Call_ShouldLock
    \/ Call_DeviceNameOfDirectory
    \/ \E dev \in DevArgs : Call_IsParallelWritingPreferredForDevice(dev)

PolicySpec == PolicyInit /\ [][PolicyNext]_vars

\* ------------------------------------------------------------ vocabulary
\* state Locked as the instance sees it: no call running and fd_ != -1
Locked(i) == pc[i] = "idle" /\ fd_[i] # -1

Unlocked(i) == pc[i] = "idle" /\ fd_[i] = -1

\* the descriptors whose open file description instance i opened
Owned(i) == {n \in FdNums : fdtab[proc[i]][n].owner = i}

\* the kernel's view: a description opened by i holds the directory's flock
HoldsLock(i) == \E n \in Owned(i) : holder[dirname_[i]] = <<proc[i], n>>

\* a Lock() of instance b is inside LockDirectory's retry loop
Pending(b) == pc[b] = "lk_flock"

\* the watched instance is back from the call `who`
Back(who) == pc[watch] \in {"idle", "done"} /\ op[watch] = who

\* ------------------------------------------------------------------ C1
\* C1 (as claimed): two distinct instances created for the same directory
\* are never both in state Locked.
C1_MutualExclusion ==
    \A a, b \in Inst :
        (a # b /\ dirname_[a] = dirname_[b]) => ~(Locked(a) /\ Locked(b))

\* ------------------------------------------------------------------ C2
\* C2 (as claimed), first half: while another instance holds the directory's
\* lock, a pending Lock() does not return.
C2_BlocksWhileHeld ==
    [][\A a, b \in Inst :
         (a # b /\ dirname_[a] = dirname_[b] /\ Locked(a) /\ HoldsLock(a)
            /\ Pending(b))
         => (Locked(a)' /\ HoldsLock(a)' => Pending(b)')]_vars

\* C2 (as claimed), second half: once the holder has released the lock, the
\* pending Lock() completes with its instance Locked, unless a third instance
\* exists or the former holder asks for the lock again.
C2_CompletesAfterRelease ==
    \A a, b \in Inst :
        (a # b /\ dirname_[a] = dirname_[b] /\ Locked(a) /\ HoldsLock(a)
           /\ Pending(b))
        ~> \/ Locked(b)
           \/ Locked(a) /\ HoldsLock(a)
           \/ pc[a] \in {"lk_open", "lk_flock"}
           \/ \E c \in Inst \ {a, b} : pc[c] # "none"

\* C2 (as claimed): a pending Lock() blocks while the other instance holds
\* the lock and completes once that lock is released.
C2_BlocksThenCompletes == C2_BlocksWhileHeld /\ C2_CompletesAfterRelease

C4_AutoLockAlwaysLocks ==
    (Back("ctor") /\ "autolock" \in ev) => (Locked(watch) /\ HoldsLock(watch))

\* ------------------------------------------------------------------ C5
\* C5 (as claimed): after the destructor has run the instance has no open
\* descriptor left and does not hold the directory's lock.
C5_TeardownReleases ==
    \A i \in Inst : pc[i] = "done" => (Owned(i) = {} /\ ~HoldsLock(i))

\* ------------------------------------------------------------------ C6
\* the step with which the watched instance comes back from Unlock()
UnlockReturns ==
    pc[watch] \in {"ul_flock", "ul_close"} /\ op[watch] = "Unlock"
    /\ pc'[watch] = "idle"

C7_LockIdempotent ==
    /\ [][\A i \in Inst : (Lock(i) /\ fd_[i] # -1) =>
            /\ pc'[i] = "idle" /\ fd_' = fd_
            /\ fdtab' = fdtab /\ holder' = holder
            /\ (i = watch => ret' = "true")]_vars
    /\ [](Back("Lock") /\ "was_locked" \in ev =>
            /\ ret = "true" /\ Locked(watch)
            /\ ev \cap {"open", "open_fail", "flock", "sleep"} = {})

C7_Witness == Back("Lock") /\ "was_locked" \in ev /\ ret = "true"

\* ------------------------------------------------------------------ C8
\* C8 (as claimed): Unlock() on a Locked instance returns true and leaves it
\* Unlocked; the Unlock() right after it returns false and calls nothing.
C8_UnlockTwiceTrueThenFalse ==
    /\ (Back("Unlock") /\ "was_locked" \in ev)
          => (ret = "true" /\ Unlocked(watch))
    /\ (Back("Unlock") /\ "after_unlock" \in ev)
          => (ret = "false" /\ Unlocked(watch) /\ ev = {"after_unlock"})

\* C8 (amended): Unlock() on a Locked instance returns true and leaves it
\* Unlocked when its flock(LOCK_UN) and its close both succeed (else it
\* returns false and keeps fd_); the Unlock() right after a true one returns
\* false, makes no OS call and leaves the instance Unlocked.
C8_UnlockTwiceWhenCallsSucceed ==
    /\ [](Back("Unlock") /\ "was_locked" \in ev =>
            IF ev \cap {"flock_un_fail", "close_fail"} = {}
            THEN ret = "true" /\ Unlocked(watch)
            ELSE ret = "false" /\ Locked(watch))
    /\ [](Back("Unlock") /\ "after_unlock" \in ev =>
            ret = "false" /\ Unlocked(watch) /\ ev = {"after_unlock"})
    /\ [][\A i \in Inst : (Unlock(i) /\ fd_[i] = -1) =>
            /\ pc'[i] = "idle" /\ fd_' = fd_
            /\ fdtab' = fdtab /\ holder' = holder]_vars

C8_Witness == Back("Unlock") /\ "after_unlock" \in ev /\ ret = "false"

\* ------------------------------------------------------------------ C9
\* C9 (as claimed): a Lock() right after a successful Unlock() on the same
\* instance, meeting no other holder, does not sleep and returns true with
\* the instance Locked.
C9_RelockNeverBlocks ==
    (op[watch] = "Lock" /\ "after_unlock" \in ev /\ "EWOULDBLOCK" \notin ev)
    => /\ "sleep" \notin ev
       /\ pc[watch] = "idle" => (ret = "true" /\ Locked(watch))

\* C9 (amended): a Lock() right after a successful Unlock() on the same
\* instance, meeting no other holder, does not sleep and returns true with
\* the instance Locked, provided its open succeeds and its flock does not
\* fail with another errno; when open fails it returns false.
C9_RelockWhenCallsSucceed ==
    /\ (op[watch] = "Lock" /\ "after_unlock" \in ev
          /\ ev \cap {"EWOULDBLOCK", "flock_err", "open_fail"} = {})
       => /\ "sleep" \notin ev
          /\ pc[watch] = "idle" => (ret = "true" /\ Locked(watch))
    /\ (Back("Lock") /\ "after_unlock" \in ev /\ "open_fail" \in ev)
       => (ret = "false" /\ Unlocked(watch))

C9_Witness ==
    /\ Back("Lock") /\ "after_unlock" \in ev /\ ret = "true"
    /\ Locked(watch) /\ HoldsLock(watch) /\ ev = {"after_unlock", "open", "flock"}

\* ----------------------------------------------------------------- C10
\* the first line of the rotational attribute file of the disk behind dir
BackingRotational == FirstLine(<<"sys", "block", "sda", "queue", "rotational">>)

\* C10 (as claimed): on Linux, when device resolution for dir succeeds,
\* ShouldLock(dir) returns false if the backing device's rotational attribute
\* file starts with '0' and true for any other content.
C10_ShouldLockIffRotational ==
    (phase = "done" /\ fn = "ShouldLock" /\ plat = "linux"
       /\ DeviceNameOfDirectory.kind = "path" /\ BackingRotational.ok)
    => result = Bool(IsRotational(BackingRotational.line))

\* ----------------------------------------------------------------- C11
\* ShouldLock(dir) has returned or thrown
ShouldLockDone == phase = "done" /\ fn = "ShouldLock"

\* the two sub-calls are compiled into ShouldLock
CallsSubCalls == plat \notin {"apple", "win32"}

\* stat fails, or realpath of the /sys/dev/block path fails
ResolutionFails ==
    st_dev = <<-1, -1>> \/ Realpath(BlockPath(st_dev)).kind = "error"

\* the rotational file named after the resolved device cannot be opened
ClassificationFails ==
    /\ ~ResolutionFails
    /\ ~FirstLine(RotationalFile(Realpath(BlockPath(st_dev)).path)).ok

\* C11: whenever device resolution (stat or realpath) or classification (the
\* rotational file does not open) fails inside ShouldLock, ShouldLock ends in
\* an error and not in a boolean.
C11_FailurePropagates ==
    (ShouldLockDone /\ CallsSubCalls /\ (ResolutionFails \/ ClassificationFails))
    => result = Error

\* ShouldLock has thrown because the rotational file could not be opened
\* after a successful resolution
C11_Witness ==
    /\ ShouldLockDone /\ plat = "linux" /\ sysfs.mounted
    /\ ClassificationFails /\ result.kind = "error"

\* ----------------------------------------------------------------- C12
\* C12 (as claimed): on every platform other than Linux, ShouldLock(dir)
\* returns false for every dir and raises no error.
C12_NonLinuxReturnsFalse ==
    (ShouldLockDone /\ plat # "linux") => result = Bool(FALSE)

\* ----------------------------------------------------------------- C13
\* DeviceNameOfDirectory(dir) has returned or thrown
ResolveDone == phase = "done" /\ fn = "DeviceNameOfDirectory"

\* dir exists: stat succeeds
Exists == st_dev # <<-1, -1>>

\* /sys/dev/block has an entry for the device dir is on
HasBlockEntry == sysfs.mounted /\ st_dev \in {<<8, 0>>, <<8, 1>>}

\* C13 (as claimed): DeviceNameOfDirectory fails when dir cannot be stat'ed,
\* and returns a nonempty string for every existing dir.
C13_ExistingPathResolves ==
    ResolveDone =>
        /\ ~Exists => result = Error
        /\ Exists => (result.kind = "path" /\ result.path # <<>>)

\* C13 (amended): DeviceNameOfDirectory fails when dir cannot be stat'ed; for
\* an existing dir it returns a nonempty string, the absolute path of the
\* device's directory under /sys/devices, when /sys/dev/block has an entry
\* for dir's device, and fails otherwise.
C13_ResolvesWhenBlockEntry ==
    ResolveDone =>
        /\ ~Exists => result = Error
        /\ (Exists /\ HasBlockEntry)
              => /\ result.kind = "path" /\ result.path # <<>>
                 /\ SubSeq(result.path, 1, 2) = <<"sys", "devices">>
        /\ (Exists /\ ~HasBlockEntry) => result = Error

\* both outcomes for an existing dir are seen; this is the successful one
C13_Witness ==
    /\ ResolveDone /\ Exists /\ HasBlockEntry
    /\ st_dev = <<8, 1>> /\ result = PathOf(PartDir)

\* ----------------------------------------------------------------- C14
\* fd_ names an open descriptor that instance i opened and that holds the
\* directory's advisory lock
HandleIsReal(i) ==
    /\ IsOpen(proc[i], fd_[i])
    /\ Owned(i) = {fd_[i]}
    /\ holder[dirname_[i]] = <<proc[i], fd_[i]>>

\* C14 (as claimed): outside a running call, an instance is either Unlocked
\* with no open descriptor and no advisory lock of its own, or Locked with
\* fd_ an open descriptor of its own on which the lock is held.
C14_HandleMatchesReality ==
    \A i \in Inst :
        /\ Unlocked(i) => (Owned(i) = {} /\ ~HoldsLock(i))
        /\ Locked(i) => HandleIsReal(i)

\* ----------------------------------------------------------------- C15
\* instance i is granted the lock on the descriptor it is trying, and
\* returns from LockDirectory with it
FlockGranted(i) ==
    /\ pc'[i] = "idle"
    /\ fd_'[i] = dir_fd[i] /\ fd_'[i] # -1
    /\ holder'[dirname_[i]] = <<proc[i], dir_fd[i]>>
    /\ (i = watch /\ op[i] = "Lock") => ret' = "true"

\* instance i stays in the loop, on the same descriptor, having slept
FlockRetried(i) ==
    /\ pc'[i] = "lk_flock"
    /\ dir_fd'[i] = dir_fd[i]
    /\ fd_'[i] = fd_[i]
    /\ i = watch => ("sleep" \in ev' /\ ret' = ret)

\* a step of instance i out of the loop condition: it leaves the loop or,
\* for the watched instance, its history grows
FlockAttempt(i) ==
    /\ pc[i] = "lk_flock"
    /\ \/ pc'[i] # "lk_flock"
       \/ i = watch /\ ev' # ev

\* C15: a flock attempt inside Lock() either is granted, and Lock() returns
\* true with the instance Locked, or it fails (would block, or any other
\* errno) and Lock() sleeps and tries again on the same descriptor; no flock
\* failure ever makes Lock() return.
C15_FlockFailureIsRetried ==
    [][\A i \in Inst :
         FlockAttempt(i) => (FlockGranted(i) \/ FlockRetried(i))]_vars

\* the watched Lock() returned true after a flock that would block and a
\* flock that failed with another errno, having slept
C15_Witness ==
    /\ Back("Lock") /\ ret = "true" /\ Locked(watch)
    /\ {"EWOULDBLOCK", "flock_err", "sleep", "flock"} \subseteq ev

\* ----------------------------------------------------------------- C16
\* C16: the open descriptors that one instance opened and has not closed are
\* never more than one, whatever Lock()/Unlock() calls and retries happened.
C16_AtMostOneDescriptor ==
    \A i \in Inst : Cardinality(Owned(i)) <= 1

\* the watched instance locked, unlocked and locked again, the last time
\* through retries of a busy lock, and owns exactly one open descriptor
C16_Witness ==
    /\ Back("Lock") /\ Locked(watch)
    /\ {"after_unlock", "EWOULDBLOCK", "sleep", "open"} \subseteq ev
    /\ Cardinality(Owned(watch)) = 1

\* ----------------------------------------------------------------- C17
\* every holder lets go of the directory's lock again and again
HoldersRelease == \A d \in Dirs : []<>(holder[d] = NoHolder)

\* C17 (as claimed): when every holder eventually releases the lock and the
\* retry loops are scheduled fairly, every Lock() that is waiting in its
\* retry loop eventually returns with its instance Locked.
C17_EventualAcquisition ==
    HoldersRelease => \A b \in Inst : (Pending(b) ~> Locked(b))

\* ----------------------------------------------------------------- C18
\* a running Unlock() or destructor of instance i is making its system calls
Unlocking(i) == pc[i] \in {"ul_flock", "ul_close"}

\* C18 (as claimed): the descriptor on which a running Unlock() or destructor
\* calls flock(LOCK_UN) and close is open and was opened by that instance.
C18_UnlockOnOwnDescriptor ==
    \A i \in Inst :
        Unlocking(i) =>
            /\ IsOpen(proc[i], dir_fd[i])
            /\ fdtab[proc[i]][dir_fd[i]].owner = i

====
